---- MODULE Spec2Model ----
(***************************************************************************)
(* A model of src/app.py, the NodeGuard support dashboard:                 *)
(*   - check_rpc_status   (the endpoint health probe),                     *)
(*   - clean_json_output  (the response extractor),                        *)
(*   - analyze_issue and the script's execution / rendering logic.         *)
(*                                                                         *)
(* A text is a sequence of atoms.  An atom is one punctuation or           *)
(* whitespace character, one decimal digit, or a maximal run of word       *)
(* characters (letters and the underscore), written as a TLA+ string.      *)
(* The alphabet has no backslash, sign, dot or control character other     *)
(* than the line feed, so string escapes and non-integer numbers do not    *)
(* occur in the texts of the model.                                        *)
(***************************************************************************)
EXTENDS Integers, Sequences, FiniteSets, TLC

Q == "\""
\* The backtick (U+0060), which a TLA+ string literal cannot hold.
BT == "BACKTICK"
SP == " "
NL == "\n"

Digits == <<"0", "1", "2", "3", "4", "5", "6", "7", "8", "9">>
DigitSet == {Digits[i] : i \in 1..10}
DigitVal(d) == (CHOOSE i \in 1..10 : Digits[i] = d) - 1

\* json.decoder.WHITESPACE and the regex class \s, restricted to the alphabet.
JsonWs == {SP, NL}
ReWs == {SP, NL}
\* Characters json.loads (strict) refuses inside a string literal.
ControlChars == {NL}

(***************************************************************************)
(* Python values.  Every value is a record [t, v]; t is the Python type    *)
(* name, v the payload: a str is a sequence of atoms, a list a sequence    *)
(* of values, a dict a function from keys (str payloads) to values.        *)
(***************************************************************************)
PyNone == [t |-> "NoneType", v |-> "None"]
PyBool(b) == [t |-> "bool", v |-> b]
PyInt(n) == [t |-> "int", v |-> n]
PyStr(s) == [t |-> "str", v |-> s]
PyList(xs) == [t |-> "list", v |-> xs]
PyDict(f) == [t |-> "dict", v |-> f]
EmptyDict == [k \in {} |-> PyNone]
\* d[key] = val on a dict payload: a repeated key keeps the last value.
DictSet(f, key, val) ==
    [k \in (DOMAIN f) \cup {key} |-> IF k = key THEN val ELSE f[k]]

(***************************************************************************)
(* json.loads: the result is [ok, val, next, err]; err is the decoder's    *)
(* message without its position suffix.                                    *)
(***************************************************************************)
ScanOk(v, n) == [ok |-> TRUE, val |-> v, next |-> n, err |-> ""]
ScanFail(msg) == [ok |-> FALSE, val |-> PyNone, next |-> 0, err |-> msg]

RECURSIVE SkipWs(_, _)
SkipWs(s, i) ==
    IF i <= Len(s) /\ s[i] \in JsonWs THEN SkipWs(s, i + 1) ELSE i

\* The index of the quote closing the string whose content starts at i;
\* 0 when the string is unterminated, -1 when a control character comes first.
RECURSIVE StringEnd(_, _)
StringEnd(s, i) ==
    IF i > Len(s) THEN 0
    ELSE IF s[i] = Q THEN i
    ELSE IF s[i] \in ControlChars THEN -1
    ELSE StringEnd(s, i + 1)

ScanString(s, i) ==
    LET e == StringEnd(s, i + 1)
    IN  IF e = 0 THEN ScanFail("Unterminated string starting at")
        ELSE IF e = -1 THEN ScanFail("Invalid control character at")
        ELSE ScanOk(PyStr(SubSeq(s, i + 1, e - 1)), e + 1)

\* An integer literal starting at the digit s[i]: a leading 0 stands alone.
RECURSIVE ScanDigits(_, _, _)
ScanDigits(s, i, acc) ==
    IF i <= Len(s) /\ s[i] \in DigitSet
    THEN ScanDigits(s, i + 1, 10 * acc + DigitVal(s[i]))
    ELSE ScanOk(PyInt(acc), i)

ScanNumber(s, i) ==
    IF s[i] = "0" THEN ScanOk(PyInt(0), i + 1) ELSE ScanDigits(s, i, 0)

RECURSIVE ScanValue(_, _), ObjMembers(_, _, _), ArrElems(_, _, _)

\* scan_once at index i (the caller has skipped the whitespace).
ScanValue(s, i) ==
    IF i > Len(s) THEN ScanFail("Expecting value")
    ELSE IF s[i] = Q THEN ScanString(s, i)
    ELSE IF s[i] = "{" THEN
        LET k == SkipWs(s, i + 1)
        IN  IF k <= Len(s) /\ s[k] = "}"
            THEN ScanOk(PyDict(EmptyDict), k + 1)
            ELSE ObjMembers(s, k, EmptyDict)
    ELSE IF s[i] = "[" THEN
        LET k == SkipWs(s, i + 1)
        IN  IF k <= Len(s) /\ s[k] = "]"
            THEN ScanOk(PyList(<<>>), k + 1)
            ELSE ArrElems(s, k, <<>>)
    ELSE IF s[i] = "null" THEN ScanOk(PyNone, i + 1)
    ELSE IF s[i] = "true" THEN ScanOk(PyBool(TRUE), i + 1)
    ELSE IF s[i] = "false" THEN ScanOk(PyBool(FALSE), i + 1)
    ELSE IF s[i] \in DigitSet THEN ScanNumber(s, i)
    ELSE ScanFail("Expecting value")

\* JSONObject from the position i where a key's opening quote is expected.
ObjMembers(s, i, acc) ==
    IF i > Len(s) \/ s[i] # Q
    THEN ScanFail("Expecting property name enclosed in double quotes")
    ELSE
      LET key == ScanString(s, i)
      IN  IF ~key.ok THEN key
          ELSE
            LET c == SkipWs(s, key.next)
            IN  IF c > Len(s) \/ s[c] # ":"
                THEN ScanFail("Expecting ':' delimiter")
                ELSE
                  LET r == ScanValue(s, SkipWs(s, c + 1))
                  IN  IF ~r.ok THEN r
                      ELSE
                        LET acc2 == DictSet(acc, key.val.v, r.val)
                            d == SkipWs(s, r.next)
                        IN  IF d <= Len(s) /\ s[d] = "}"
                            THEN ScanOk(PyDict(acc2), d + 1)
                            ELSE IF d > Len(s) \/ s[d] # ","
                            THEN ScanFail("Expecting ',' delimiter")
                            ELSE ObjMembers(s, SkipWs(s, d + 1), acc2)

\* JSONArray from the position i of its next element.
ArrElems(s, i, acc) ==
    LET r == ScanValue(s, i)
    IN  IF ~r.ok THEN r
        ELSE
          LET acc2 == Append(acc, r.val)
              d == SkipWs(s, r.next)
          IN  IF d <= Len(s) /\ s[d] = "]"
              THEN ScanOk(PyList(acc2), d + 1)
              ELSE IF d > Len(s) \/ s[d] # ","
              THEN ScanFail("Expecting ',' delimiter")
              ELSE ArrElems(s, SkipWs(s, d + 1), acc2)

\* json.loads(s): one value, whitespace around it, nothing else.
JsonLoads(s) ==
    LET r == ScanValue(s, SkipWs(s, 1))
    IN  IF ~r.ok THEN r
        ELSE IF SkipWs(s, r.next) <= Len(s) THEN ScanFail("Extra data")
        ELSE r

(***************************************************************************)
(* re.search(pattern, s, re.DOTALL) for the pattern of src/app.py line 48: *)
(*   FENCE (?:json)? \s* ( \{ .*? \} ) \s* FENCE                           *)
(* where FENCE is three backticks.  The result is [found, lo, hi], group 1 *)
(* being s[lo..hi].                                                        *)
(***************************************************************************)
FenceAt(s, i) ==
    /\ i >= 1
    /\ i + 2 <= Len(s)
    /\ s[i] = BT /\ s[i + 1] = BT /\ s[i + 2] = BT

RECURSIVE SkipReWs(_, _)
SkipReWs(s, i) ==
    IF i <= Len(s) /\ s[i] \in ReWs THEN SkipReWs(s, i + 1) ELSE i

\* The greedy span: the last closing brace that whitespace and a fence follow.
LazyClose_Greedy(s, b) ==
    LET ends == {e \in (b + 1)..Len(s) :
                    s[e] = "}" /\ FenceAt(s, SkipReWs(s, e + 1))}
    IN  IF ends = {} THEN 0
        ELSE CHOOSE e \in ends : \A f \in ends : e >= f

\* For the opening brace at b: the index of the closing brace of the lazily
\* shortest span that whitespace and a fence follow, or 0.
LazyClose(s, b) ==
    LET ends == {e \in (b + 1)..Len(s) :
                    s[e] = "}" /\ FenceAt(s, SkipReWs(s, e + 1))}
    IN  IF ends = {} THEN 0
        ELSE CHOOSE e \in ends : \A f \in ends : e <= f

\* The pattern after its opening fence, from index k: [found, lo, hi].
BodyAt(s, k) ==
    LET b == SkipReWs(s, k)
    IN  IF b <= Len(s) /\ s[b] = "{" /\ LazyClose(s, b) # 0
        THEN [found |-> TRUE, lo |-> b, hi |-> LazyClose(s, b)]
        ELSE [found |-> FALSE, lo |-> 0, hi |-> 0]

\* The pattern anchored at index i: the optional tag is tried first.
MatchAt(s, i) ==
    IF ~FenceAt(s, i) THEN [found |-> FALSE, lo |-> 0, hi |-> 0]
    ELSE IF i + 3 <= Len(s) /\ s[i + 3] = "json" /\ BodyAt(s, i + 4).found
    THEN BodyAt(s, i + 4)
    ELSE BodyAt(s, i + 3)

\* The leftmost index at which the pattern matches.
ReSearch(s) ==
    LET starts == {i \in 1..Len(s) : MatchAt(s, i).found}
    IN  IF starts = {} THEN [found |-> FALSE, lo |-> 0, hi |-> 0]
        ELSE MatchAt(s, CHOOSE i \in starts : \A j \in starts : i <= j)

Group1(s, m) == SubSeq(s, m.lo, m.hi)

(***************************************************************************)
(* The Python operations the script applies to values.                     *)
(***************************************************************************)
\* bool(v), as "if v" and "not v" evaluate it.
Truthy(v) ==
    CASE v.t = "NoneType" -> FALSE
      [] v.t = "bool" -> v.v
      [] v.t = "int" -> v.v # 0
      [] v.t = "str" -> v.v # <<>>
      [] v.t = "list" -> v.v # <<>>
      [] v.t = "dict" -> DOMAIN v.v # {}

\* The exception classes that occur, each with its base classes (itself
\* included).
ExcBases(e) ==
    CASE e = "Timeout" -> {"Timeout", "RequestException", "OSError", "Exception"}
      [] e = "ConnectionError" ->
            {"ConnectionError", "RequestException", "OSError", "Exception"}
      [] e = "SSLError" ->
            {"SSLError", "ConnectionError", "RequestException", "OSError",
             "Exception"}
      [] e = "MissingSchema" ->
            {"MissingSchema", "RequestException", "OSError", "ValueError",
             "Exception"}
      [] e = "JSONDecodeError" -> {"JSONDecodeError", "ValueError", "Exception"}
      [] e = "ValueError" -> {"ValueError", "Exception"}
      [] e = "RuntimeError" -> {"RuntimeError", "Exception"}
      [] OTHER -> {e, "Exception"}

\* "except cls:" catches the raised exception e.
Catches(cls, e) == cls \in ExcBases(e)

(***************************************************************************)
(* check_rpc_status(url)                                                   *)
(***************************************************************************)
\* The clock counts half milliseconds: a request takes 0..MaxElapsed of them.
MaxElapsed == 3
\* The status codes a response carries in the model.
StatusCodes == {200, 201, 204, 404, 500, 503}
\* The exceptions requests.post raises in the model.
PostExceptions == {"Timeout", "ConnectionError", "SSLError", "RuntimeError"}

\* The values of the url parameter: absent, empty, malformed, valid.
UrlAbsent == PyNone
UrlEmpty == PyStr(<<>>)
UrlMalformed == PyStr(<<"node", "example">>)
UrlValid == PyStr(<<"https", ":", "/", "/", "node", "example">>)
UrlValues == {UrlAbsent, UrlEmpty, UrlMalformed, UrlValid}

\* requests accepts a URL that names a scheme and a host.
WellFormedUrl(u) ==
    /\ Len(u.v) >= 5
    /\ u.v[1] \in {"http", "https"}
    /\ u.v[2] = ":" /\ u.v[3] = "/" /\ u.v[4] = "/"

NoResponse == [kind |-> "none", status_code |-> 0, exc |-> ""]
Response(c) == [kind |-> "response", status_code |-> c, exc |-> ""]
Raised(e) == [kind |-> "exception", status_code |-> 0, exc |-> e]

\* What requests.post(url, ...) can do: a malformed URL raises before any
\* connection is made.
PostOutcomes(u) ==
    IF WellFormedUrl(u)
    THEN {Response(c) : c \in StatusCodes} \cup {Raised(e) : e \in PostExceptions}
    ELSE {Raised("MissingSchema")}

\* f"{lat:.0f}ms" for lat = (time.time() - start) * 1000, the elapsed time
\* given in half milliseconds: round to nearest, a tie to the even neighbour.
FormatLatency(ticks) ==
    LET whole == ticks \div 2
        ms == IF ticks % 2 = 0 THEN whole
              ELSE IF whole % 2 = 0 THEN whole ELSE whole + 1
    IN  ToString(ms) \o "ms"

NoResult == [kind |-> "none", reachable |-> FALSE, detail |-> "", exc |-> ""]
ProbeReturn(reachable, detail) ==
    [kind |-> "return", reachable |-> reachable, detail |-> detail, exc |-> ""]
ProbeRaise(e) ==
    [kind |-> "raise", reachable |-> FALSE, detail |-> "", exc |-> e]

(***************************************************************************)
(* The texts of the model: what the chat completion can answer, and what   *)
(* clean_json_output can be given.                                         *)
(***************************************************************************)
Fence == <<BT, BT, BT>>
JStr(w) == <<Q, w, Q>>
Member(k, v) == JStr(k) \o <<":", SP>> \o v
RECURSIVE JoinComma(_)
JoinComma(xs) ==
    IF xs = <<>> THEN <<>>
    ELSE IF Len(xs) = 1 THEN xs[1]
    ELSE xs[1] \o <<",", SP>> \o JoinComma(Tail(xs))
Obj(ms) == <<"{">> \o JoinComma(ms) \o <<"}">>
Arr(xs) == <<"[">> \o JoinComma(xs) \o <<"]">>
Fenced(tag, body) == Fence \o tag \o <<NL>> \o body \o <<NL>> \o Fence
Prose == <<"Sure", ",", SP, "here", SP, "is", SP, "the", SP, "result", ":", NL>>

ObjA1 == Obj(<<Member("a", <<"1">>)>>)
ObjB2 == Obj(<<Member("b", <<"2">>)>>)
BugReport(sev) ==
    Obj(<<Member("bug_report",
                 Obj(<<Member("title", JStr("t"))>> \o sev))>>)
Severity(v) == <<Member("severity", v)>>
FullAnalysis ==
    Obj(<<Member("analysis_summary", JStr("cause")),
          Member("suggested_steps", Arr(<<JStr("one"), JStr("two")>>)),
          Member("script_required", <<"true">>),
          Member("python_script", JStr("code")),
          Member("bug_report",
                 Obj(<<Member("title", JStr("t")),
                       Member("description", JStr("d")),
                       Member("severity", <<"2">>),
                       Member("category", JStr("c"))>>))>>)

\* Texts that are JSON as a whole: objects of the expected shape.
AnalysisTexts ==
    {FullAnalysis,
     Obj(<<Member("analysis_summary", JStr("cause"))>>),
     Obj(<<Member("analysis_summary", JStr("cause")),
           Member("suggested_steps", Arr(<<JStr("one")>>))>>),
     Obj(<<Member("script_required", <<"true">>),
           Member("python_script", JStr("code"))>>),
     Obj(<<Member("script_required", <<"true">>),
           Member("python_script", <<"null">>)>>),
     Obj(<<Member("script_required", <<"false">>),
           Member("python_script", JStr("code"))>>),
     BugReport(<<>>)}
    \cup {BugReport(Severity(<<d>>)) : d \in {"0", "1", "2", "3", "4", "5", "7"}}
    \cup {BugReport(Severity(<<"1", "0">>)),
          BugReport(Severity(JStr("high"))),
          BugReport(Severity(<<"true">>)),
          BugReport(Severity(<<"null">>)),
          BugReport(Severity(Arr(<<<<"1">>>>)))}

\* Texts that are JSON as a whole: objects of another shape, and other values.
OtherJsonTexts ==
    {Obj(<<>>),
     <<SP>> \o ObjA1 \o <<SP, NL>>,
     Obj(<<Member("a", <<"1">>), Member("a", <<"2">>)>>),
     Obj(<<Member("error", JStr("none")),
           Member("analysis_summary", JStr("cause"))>>),
     Obj(<<Member("analysis_summary", JStr("cause")),
           Member("suggested_steps", <<"5">>)>>),
     Obj(<<Member("analysis_summary", JStr("cause")),
           Member("bug_report", JStr("text"))>>),
     Arr(<<>>),
     Arr(<<<<"1">>>>),
     Arr(<<JStr("error")>>),
     JStr("hello"),
     JStr("error"),
     <<"5">>,
     <<"0">>,
     <<"true">>,
     <<"null">>,
     <<Q>> \o Fence \o ObjA1 \o Fence \o <<Q>>,
     <<Q>> \o Fence \o <<"{", "a", "}">> \o Fence \o <<Q>>}

\* Texts that are not JSON as a whole and hold a fence.
FencedTexts ==
    {Prose \o Fenced(<<"json">>, ObjA1) \o <<NL>>,
     Fenced(<<>>, ObjA1),
     Fence \o ObjA1 \o Fence,
     Prose \o Fenced(<<"json">>, FullAnalysis),
     Fenced(<<"json">>, Obj(<<Member("a", ObjB2)>>)),
     Fenced(<<"json">>, Obj(<<Member("a", ObjB2), Member("c", <<"3">>)>>)),
     Fenced(<<"json">>, ObjA1) \o <<SP, "and", SP>> \o Fenced(<<"json">>, ObjB2),
     Fence \o <<"{", "a", "}">> \o Fence \o <<SP>> \o Fence \o ObjA1 \o Fence,
     Fence \o <<"x">> \o Fence \o <<SP>> \o Fence \o ObjA1 \o Fence,
     Fence \o <<"x">> \o Fence \o ObjA1 \o Fence,
     Fence \o <<SP, "{", "x", SP>> \o Fence \o <<"json", SP>> \o ObjA1
        \o <<SP>> \o Fence,
     Fence \o Obj(<<Member("a", <<Q, "}">> \o Fence \o <<Q>>)>>) \o Fence,
     Fenced(<<"json">>, <<"{", "a", "}">>),
     Fenced(<<"json">>, Obj(<<JStr("a") \o <<SP, "1">>>>)),
     Fenced(<<"json">>, <<"{", Q, "a", Q, ":", SP, Q, "b", "}">>),
     Fenced(<<"json">>, Arr(<<<<"1">>>>)),
     Fenced(<<"JSON">>, ObjA1),
     Fenced(<<"python">>, ObjA1),
     <<BT>> \o Fence \o ObjA1 \o Fence,
     Fence \o <<"json", NL>> \o ObjA1,
     <<BT, BT>> \o ObjA1 \o <<BT, BT>>,
     Prose \o ObjA1 \o <<SP>> \o Fenced(<<"json">>, ObjB2),
     Fenced(<<"json">>, Obj(<<Member("error", JStr("none"))>>))}

\* Texts that are not JSON as a whole and hold no fence.
PlainTexts ==
    {<<>>,
     <<"not", SP, "json", SP, "at", SP, "all">>,
     <<"{">>,
     <<"0", "1">>,
     <<"1", SP, "2">>,
     Prose \o ObjA1,
     Obj(<<JStr("a") \o <<SP, "1">>>>)}

Texts == AnalysisTexts \cup OtherJsonTexts \cup FencedTexts \cup PlainTexts

(***************************************************************************)
(* Section 6 of the script: one run of it, from the Analyse button on, and *)
(* analyze_issue.  A rendered element is [w, body]: the Streamlit call and *)
(* the value it shows (the emoji of the source's literals are left out).   *)
(***************************************************************************)
Lit(text) == PyStr(<<text>>)
Key(w) == <<w>>
Element(w, body) == [w |-> w, body |-> body]

\* Lines 122-128: the key of the environment, else the one typed in.
ApiKey(env_key, typed) == IF env_key # "" THEN env_key ELSE typed
EnvKeys == {"", "sk-env"}
TypedKeys == {"", "sk-typed"}
\* Line 156: the text area's content.
IssueDescs == {"", "estimateGas reverted"}
\* Line 163: no file, a file of UTF-8 text, a file of other bytes.
UploadedLogs == {"none", "utf8", "binary"}
\* The exceptions client.chat.completions.create raises in the model.
ChatErrors ==
    {[exc |-> "APIConnectionError", msg |-> "Connection error."],
     [exc |-> "AuthenticationError", msg |-> "Incorrect API key provided."]}

\* d.get(k, default) on a dict.
DictGet(d, k, default) == IF k \in DOMAIN d.v THEN d.v[k] ELSE default

\* Word atoms that hold "error" as a substring, among those of the texts.
ErrorWords == {"error"}

\* ("error" in v): [exc, val].
InError(v) ==
    CASE v.t = "dict" -> [exc |-> "", val |-> Key("error") \in DOMAIN v.v]
      [] v.t = "list" ->
            [exc |-> "",
             val |-> \E i \in 1..Len(v.v) : v.v[i] = PyStr(<<"error">>)]
      [] v.t = "str" ->
            [exc |-> "", val |-> \E i \in 1..Len(v.v) : v.v[i] \in ErrorWords]
      [] OTHER -> [exc |-> "TypeError", val |-> FALSE]

\* Lines 223-229.
sev_map ==
    <<Lit("Critical"), Lit("High"), Lit("Medium"), Lit("Low"), Lit("Info")>>
DefaultSeverity == 3

\* sev_map.get(key, default): TRUE hashes and compares as 1.
SevMapGet(key, default) ==
    IF key.t = "int" /\ key.v \in DOMAIN sev_map THEN sev_map[key.v]
    ELSE IF key.t = "bool" /\ key.v THEN sev_map[1]
    ELSE default

\* Line 236: the severity label of the card, for the dict report.
SeverityLabel(report) ==
    SevMapGet(DictGet(report, Key("severity"), PyInt(DefaultSeverity)),
              PyInt(DefaultSeverity))

Hashable(v) == v.t \notin {"list", "dict"}

\* The keys of a dict, in some order (Python keeps the insertion order).
KeysSeq(f) ==
    CHOOSE q \in [1..Cardinality(DOMAIN f) -> DOMAIN f] :
        \A k \in DOMAIN f : \E i \in DOMAIN q : q[i] = k

\* iter(v), as the for loop of line 217 needs it: [exc, items].  A str gives
\* one item per atom, a word atom standing for its characters.
Iterate(v) ==
    CASE v.t = "list" -> [exc |-> "", items |-> v.v]
      [] v.t = "str" -> [exc |-> "", items |-> [i \in DOMAIN v.v |-> PyStr(<<v.v[i]>>)]]
      [] v.t = "dict" ->
            [exc |-> "", items |-> [i \in 1..Cardinality(DOMAIN v.v) |-> PyStr(KeysSeq(v.v)[i])]]
      [] OTHER -> [exc |-> "TypeError", items |-> <<>>]

VARIABLES
    url,        \* check_rpc_status: the url argument
    probe_pc,   \* check_rpc_status: "idle", "entry", "try", "posted", "done"
    start,      \* check_rpc_status: the local start
    clock,      \* time.time(), in half milliseconds
    resp,       \* what requests.post did
    posts,      \* the number of requests.post calls of this invocation
    probe_out,  \* what check_rpc_status returned (or raised)
    raw_text,   \* clean_json_output: the raw_text argument
    x_pc,       \* clean_json_output: "idle", "entry", "except", "searched", "done"
    match,      \* clean_json_output: the local match
    searches,   \* the number of re.search calls of this invocation
    x_out,      \* what clean_json_output returned or raised
    pc,            \* the script's position
    api_key,       \* line 125 / 128
    issue_desc,    \* line 156
    uploaded_log,  \* line 163
    trace,         \* the checks passed and the calls made, in order
    status_label,  \* the label of the st.status container
    result,        \* line 192 / 195
    out,           \* the elements rendered, in order
    crash          \* the exception that ended the run, or ""

probe_vars == <<url, probe_pc, start, clock, resp, posts, probe_out>>
extract_vars == <<raw_text, x_pc, match, searches, x_out>>
app_vars == <<pc, api_key, issue_desc, uploaded_log, trace, status_label,
              result, out, crash>>
vars == <<probe_vars, extract_vars, app_vars>>

\* Lines 56-59: the guard on the url, then the start of the try block.
ProbeEntry ==
    /\ probe_pc = "entry"
    /\ IF ~Truthy(url)
       THEN /\ probe_out' = ProbeReturn(FALSE, "No URL Configured")
            /\ probe_pc' = "done"
            /\ UNCHANGED start
       ELSE /\ start' = clock
            /\ probe_pc' = "try"
            /\ UNCHANGED probe_out
    /\ UNCHANGED <<url, clock, resp, posts, extract_vars, app_vars>>

\* Lines 60-63: the one requests.post call, which takes some time.
ProbePost ==
    /\ probe_pc = "try"
    /\ \E o \in PostOutcomes(url), d \in 0..MaxElapsed :
          /\ resp' = o
          /\ clock' = clock + d
    /\ posts' = posts + 1
    /\ probe_pc' = "posted"
    /\ UNCHANGED <<url, start, probe_out, extract_vars, app_vars>>

\* A handler that names the requests exceptions only.
ProbeExcept_RequestsOnly(e) ==
    IF Catches("RequestException", e)
    THEN ProbeReturn(FALSE, "Connection Failed")
    ELSE ProbeRaise(e)

\* Lines 68-69: the handler of the try block.
ProbeExcept(e) ==
    IF Catches("Exception", e)
    THEN ProbeReturn(FALSE, "Connection Failed")
    ELSE ProbeRaise(e)

\* A status test that takes every 2xx code for a success.
ProbeStatus_Any2xx(r, elapsed) ==
    IF r.status_code >= 200 /\ r.status_code < 300
    THEN ProbeReturn(TRUE, FormatLatency(elapsed))
    ELSE ProbeReturn(FALSE, "HTTP " \o ToString(r.status_code))

\* Lines 64-67: the response's status decides the result.
ProbeStatus(r, elapsed) ==
    IF r.status_code = 200
    THEN ProbeReturn(TRUE, FormatLatency(elapsed))
    ELSE ProbeReturn(FALSE, "HTTP " \o ToString(r.status_code))

\* A probe that posts a second time when the first post raised.
ProbeFinish_Retry ==
    /\ probe_pc = "posted"
    /\ IF resp.kind = "exception" /\ posts < 2
       THEN /\ probe_pc' = "try"
            /\ UNCHANGED probe_out
       ELSE /\ probe_out' = IF resp.kind = "exception"
                            THEN ProbeExcept(resp.exc)
                            ELSE ProbeStatus(resp, clock - start)
            /\ probe_pc' = "done"
    /\ UNCHANGED <<url, start, clock, resp, posts, extract_vars, app_vars>>

\* Lines 64-69: after the post, the result or the handler.
ProbeFinish ==
    /\ probe_pc = "posted"
    /\ probe_out' = IF resp.kind = "exception"
                    THEN ProbeExcept(resp.exc)
                    ELSE ProbeStatus(resp, clock - start)
    /\ probe_pc' = "done"
    /\ UNCHANGED <<url, start, clock, resp, posts, extract_vars, app_vars>>

(***************************************************************************)
(* clean_json_output(raw_text)                                             *)
(***************************************************************************)
NoMatch == [found |-> FALSE, lo |-> 0, hi |-> 0]
NoOutcome == [kind |-> "none", val |-> PyNone, exc |-> "", msg |-> ""]
Return(v) == [kind |-> "return", val |-> v, exc |-> "", msg |-> ""]
Raise(e, m) == [kind |-> "raise", val |-> PyNone, exc |-> e, msg |-> m]

\* Line 51: the message of the ValueError.
ParseFailureMessage == "The AI response could not be parsed as JSON."

\* An extractor that looks for a fenced block before it tries the whole text.
ExtractStrict_FenceFirst ==
    /\ x_pc = "entry"
    /\ LET r == JsonLoads(raw_text)
       IN  IF r.ok /\ ~ReSearch(raw_text).found
           THEN /\ x_out' = Return(r.val)
                /\ x_pc' = "done"
           ELSE /\ x_pc' = "except"
                /\ UNCHANGED x_out
    /\ UNCHANGED <<raw_text, match, searches, probe_vars, app_vars>>

\* Lines 45-47: the strict parse of the whole text; a JSONDecodeError enters
\* the handler.
ExtractStrict ==
    /\ x_pc = "entry"
    /\ LET r == JsonLoads(raw_text)
       IN  IF r.ok
           THEN /\ x_out' = Return(r.val)
                /\ x_pc' = "done"
           ELSE /\ x_pc' = "except"
                /\ UNCHANGED x_out
    /\ UNCHANGED <<raw_text, match, searches, probe_vars, app_vars>>

\* Line 48: the search for a fenced block.
ExtractSearch ==
    /\ x_pc = "except"
    /\ match' = ReSearch(raw_text)
    /\ searches' = searches + 1
    /\ x_pc' = "searched"
    /\ UNCHANGED <<raw_text, x_out, probe_vars, app_vars>>

\* Lines 49-51: the parse of the captured span, whose JSONDecodeError no
\* handler catches, or the ValueError.
ExtractFallback ==
    /\ x_pc = "searched"
    /\ x_out' = IF match.found
                THEN LET r == JsonLoads(Group1(raw_text, match))
                     IN  IF r.ok THEN Return(r.val)
                         ELSE Raise("JSONDecodeError", r.err)
                ELSE Raise("ValueError", ParseFailureMessage)
    /\ x_pc' = "done"
    /\ UNCHANGED <<raw_text, match, searches, probe_vars, app_vars>>

\* Line 168: the button is pressed in this run, or it is not.
Button ==
    /\ pc = "button"
    /\ \E clicked \in BOOLEAN :
          pc' = IF clicked THEN "check_key" ELSE "finished"
    /\ UNCHANGED <<api_key, issue_desc, uploaded_log, trace, status_label,
                   result, out, crash, probe_vars, extract_vars>>

\* A credential check that shows its message and goes on.
CheckKey_NoStop ==
    /\ pc = "check_key"
    /\ IF api_key = ""
       THEN /\ out' = Append(out, Element("error", Lit("OpenAI API Key is missing.")))
            /\ pc' = "check_input"
            /\ UNCHANGED trace
       ELSE /\ trace' = Append(trace, "key_ok")
            /\ pc' = "check_input"
            /\ UNCHANGED out
    /\ UNCHANGED <<api_key, issue_desc, uploaded_log, status_label, result,
                   crash, probe_vars, extract_vars>>

\* Lines 170-172: the credential check; st.stop() ends the run.
CheckKey ==
    /\ pc = "check_key"
    /\ IF api_key = ""
       THEN /\ out' = Append(out, Element("error", Lit("OpenAI API Key is missing.")))
            /\ pc' = "stopped"
            /\ UNCHANGED trace
       ELSE /\ trace' = Append(trace, "key_ok")
            /\ pc' = "check_input"
            /\ UNCHANGED out
    /\ UNCHANGED <<api_key, issue_desc, uploaded_log, status_label, result,
                   crash, probe_vars, extract_vars>>

\* Lines 174-176: at least one of the two inputs.
CheckInput ==
    /\ pc = "check_input"
    /\ IF issue_desc = "" /\ uploaded_log = "none"
       THEN /\ out' = Append(out, Element("warning",
                        Lit("Please provide an issue description or a log file.")))
            /\ pc' = "stopped"
            /\ UNCHANGED trace
       ELSE /\ trace' = Append(trace, "input_ok")
            /\ pc' = "init_client"
            /\ UNCHANGED out
    /\ UNCHANGED <<api_key, issue_desc, uploaded_log, status_label, result,
                   crash, probe_vars, extract_vars>>

\* Lines 179-183: the client is constructed, or the constructor raises.
InitClient ==
    /\ pc = "init_client"
    /\ trace' = Append(trace, "OpenAI")
    /\ \E ok \in BOOLEAN :
          IF ok
          THEN pc' = "prepare" /\ UNCHANGED out
          ELSE /\ out' = Append(out, Element("error",
                           Lit("Failed to initialise OpenAI Client")))
               /\ pc' = "stopped"
    /\ UNCHANGED <<api_key, issue_desc, uploaded_log, status_label, result,
                   crash, probe_vars, extract_vars>>

\* Lines 186-194: the upload is read and decoded, then the status container
\* opens; bytes that are not UTF-8 raise out of the script.
PrepareData ==
    /\ pc = "prepare"
    /\ trace' = IF uploaded_log = "none" THEN trace ELSE Append(trace, "read")
    /\ IF uploaded_log = "binary"
       THEN /\ crash' = "UnicodeDecodeError"
            /\ pc' = "crashed"
            /\ UNCHANGED status_label
       ELSE /\ status_label' = "Analysing..."
            /\ pc' = "analyze"
            /\ UNCHANGED crash
    /\ UNCHANGED <<api_key, issue_desc, uploaded_log, result, out,
                   probe_vars, extract_vars>>

\* Lines 113-114: the handler of analyze_issue: [caught, val].
AnalyzeExcept(e, msg) ==
    IF Catches("Exception", e)
    THEN [caught |-> TRUE, val |-> PyDict(Key("error") :> Lit(msg))]
    ELSE [caught |-> FALSE, val |-> PyNone]

\* Lines 102-111: the chat-completion call raises, or answers with a text
\* that line 112 hands to clean_json_output.
ChatCall ==
    /\ pc = "analyze"
    /\ trace' = Append(trace, "create")
    /\ \/ \E e \in ChatErrors :
             /\ IF AnalyzeExcept(e.exc, e.msg).caught
                THEN /\ result' = AnalyzeExcept(e.exc, e.msg).val
                     /\ pc' = "status"
                     /\ UNCHANGED crash
                ELSE /\ crash' = e.exc
                     /\ pc' = "crashed"
                     /\ UNCHANGED result
             /\ UNCHANGED extract_vars
       \/ \E t \in Texts :
             /\ raw_text' = t
             /\ x_pc' = "entry"
             /\ pc' = "extract"
             /\ UNCHANGED <<result, crash, match, searches, x_out>>
    /\ UNCHANGED <<api_key, issue_desc, uploaded_log, status_label, out,
                   probe_vars>>

\* Lines 112-114: the extractor's value is returned as it is; what the
\* extractor raised goes to the handler.
AnalyzeReturn ==
    /\ pc = "extract"
    /\ x_pc = "done"
    /\ IF x_out.kind = "return"
       THEN /\ result' = x_out.val
            /\ pc' = "status"
            /\ UNCHANGED crash
       ELSE IF AnalyzeExcept(x_out.exc, x_out.msg).caught
       THEN /\ result' = AnalyzeExcept(x_out.exc, x_out.msg).val
            /\ pc' = "status"
            /\ UNCHANGED crash
       ELSE /\ crash' = x_out.exc
            /\ pc' = "crashed"
            /\ UNCHANGED result
    /\ UNCHANGED <<api_key, issue_desc, uploaded_log, trace, status_label,
                   out, probe_vars, extract_vars>>

\* Lines 197-203: the error test on the result.
StatusCheck ==
    /\ pc = "status"
    /\ LET c == InError(result)
       IN  IF c.exc # ""
           THEN /\ crash' = c.exc
                /\ pc' = "crashed"
                /\ UNCHANGED <<status_label, out>>
           ELSE IF c.val
           THEN /\ status_label' = "Analysis Failed"
                /\ IF result.t = "dict"
                   THEN /\ out' = out \o
                              <<Element("error", Lit("AI Error Occurred:")),
                                Element("code", result.v[Key("error")])>>
                        /\ pc' = "stopped"
                        /\ UNCHANGED crash
                   ELSE /\ out' = Append(out,
                              Element("error", Lit("AI Error Occurred:")))
                        /\ crash' = "TypeError"
                        /\ pc' = "crashed"
           ELSE /\ status_label' = "Analysis Complete"
                /\ pc' = "display"
                /\ UNCHANGED <<out, crash>>
    /\ UNCHANGED <<api_key, issue_desc, uploaded_log, trace, result,
                   probe_vars, extract_vars>>

\* Lines 206-207: nothing is displayed for a falsy result.
DisplayGuard ==
    /\ pc = "display"
    /\ IF Truthy(result)
       THEN /\ out' = Append(out, Element("divider", PyNone))
            /\ pc' = "summary"
       ELSE /\ pc' = "finished"
            /\ UNCHANGED out
    /\ UNCHANGED <<api_key, issue_desc, uploaded_log, trace, status_label,
                   result, crash, probe_vars, extract_vars>>

\* Lines 210-211: the summary; only a dict has a get method.
RenderSummary ==
    /\ pc = "summary"
    /\ IF result.t = "dict"
       THEN /\ out' = out \o
                  <<Element("subheader", Lit("Root Cause Analysis")),
                    Element("info", DictGet(result, Key("analysis_summary"),
                                            Lit("No summary returned.")))>>
            /\ pc' = "steps"
            /\ UNCHANGED crash
       ELSE /\ out' = Append(out, Element("subheader", Lit("Root Cause Analysis")))
            /\ crash' = "AttributeError"
            /\ pc' = "crashed"
    /\ UNCHANGED <<api_key, issue_desc, uploaded_log, trace, status_label,
                   result, probe_vars, extract_vars>>

\* Lines 214-218: the remediation steps.
RenderSteps ==
    /\ pc = "steps"
    /\ LET steps == DictGet(result, Key("suggested_steps"), PyList(<<>>))
           it == Iterate(steps)
       IN  IF ~Truthy(steps)
           THEN pc' = "bug_report" /\ UNCHANGED <<out, crash>>
           ELSE IF it.exc # ""
           THEN /\ out' = Append(out, Element("expander", PyList(<<>>)))
                /\ crash' = it.exc
                /\ pc' = "crashed"
           ELSE /\ out' = Append(out, Element("expander", PyList(it.items)))
                /\ pc' = "bug_report"
                /\ UNCHANGED crash
    /\ UNCHANGED <<api_key, issue_desc, uploaded_log, trace, status_label,
                   result, probe_vars, extract_vars>>

\* Lines 221-242: the bug-report card; the f-string is evaluated before
\* st.markdown is called.
RenderBugReport ==
    /\ pc = "bug_report"
    /\ LET report == DictGet(result, Key("bug_report"), PyDict(EmptyDict))
       IN  IF ~Truthy(report)
           THEN pc' = "script" /\ UNCHANGED <<out, crash>>
           ELSE IF report.t # "dict"
           THEN crash' = "AttributeError" /\ pc' = "crashed" /\ UNCHANGED out
           ELSE IF ~Hashable(DictGet(report, Key("severity"), PyInt(DefaultSeverity)))
           THEN crash' = "TypeError" /\ pc' = "crashed" /\ UNCHANGED out
           ELSE /\ out' = Append(out, Element("bug-card", PyDict(
                     Key("title") :> DictGet(report, Key("title"), Lit("Untitled"))
                     @@ Key("category") :> DictGet(report, Key("category"), Lit("General"))
                     @@ Key("severity") :> SeverityLabel(report)
                     @@ Key("description") :>
                            DictGet(report, Key("description"), Lit("No description.")))))
                /\ pc' = "script"
                /\ UNCHANGED crash
    /\ UNCHANGED <<api_key, issue_desc, uploaded_log, trace, status_label,
                   result, probe_vars, extract_vars>>

\* Lines 245-248: the script and its download button.
RenderScript ==
    /\ pc = "script"
    /\ IF /\ Truthy(DictGet(result, Key("script_required"), PyNone))
          /\ Truthy(DictGet(result, Key("python_script"), PyNone))
       THEN out' = out \o
                <<Element("subheader", Lit("Fix Script")),
                  Element("code", result.v[Key("python_script")]),
                  Element("download_button", result.v[Key("python_script")])>>
       ELSE UNCHANGED out
    /\ pc' = "finished"
    /\ UNCHANGED <<api_key, issue_desc, uploaded_log, trace, status_label,
                   result, crash, probe_vars, extract_vars>>

AppIdle ==
    /\ pc = "idle"
    /\ api_key = ""
    /\ issue_desc = ""
    /\ uploaded_log = "none"
    /\ trace = <<>>
    /\ status_label = ""
    /\ result = PyNone
    /\ out = <<>>
    /\ crash = ""

ProbeIdle ==
    /\ url = UrlEmpty
    /\ probe_pc = "idle"
    /\ start = 0
    /\ clock = 0
    /\ resp = NoResponse
    /\ posts = 0
    /\ probe_out = NoResult

ExtractIdle ==
    /\ raw_text = <<>>
    /\ x_pc = "idle"
    /\ match = NoMatch
    /\ searches = 0
    /\ x_out = NoOutcome

\* check_rpc_status called with any url.
ProbeInit ==
    /\ url \in UrlValues
    /\ probe_pc = "entry"
    /\ start = 0
    /\ clock \in 0..1
    /\ resp = NoResponse
    /\ posts = 0
    /\ probe_out = NoResult
    /\ ExtractIdle
    /\ AppIdle

ProbeNext == ProbeEntry \/ ProbePost \/ ProbeFinish

SpecProbe == ProbeInit /\ [][ProbeNext]_vars

\* clean_json_output called with any text.
ExtractInit ==
    /\ raw_text \in Texts
    /\ x_pc = "entry"
    /\ match = NoMatch
    /\ searches = 0
    /\ x_out = NoOutcome
    /\ ProbeIdle
    /\ AppIdle

ExtractNext == ExtractStrict \/ ExtractSearch \/ ExtractFallback

SpecExtract == ExtractInit /\ [][ExtractNext]_vars
\* One run of the script with the Analyse button on the page.
Init ==
    /\ pc = "button"
    /\ \E e \in EnvKeys, t \in TypedKeys : api_key = ApiKey(e, t)
    /\ issue_desc \in IssueDescs
    /\ uploaded_log \in UploadedLogs
    /\ trace = <<>>
    /\ status_label = ""
    /\ result = PyNone
    /\ out = <<>>
    /\ crash = ""
    /\ ExtractIdle
    /\ ProbeIdle

Next ==
    \/ Button
    \/ CheckKey
    \/ CheckInput
    \/ InitClient
    \/ PrepareData
    \/ ChatCall
    \/ ExtractStrict
    \/ ExtractSearch
    \/ ExtractFallback
    \/ AnalyzeReturn
    \/ StatusCheck
    \/ DisplayGuard
    \/ RenderSummary
    \/ RenderSteps
    \/ RenderBugReport
    \/ RenderScript

Spec == Init /\ [][Next]_vars

(***************************************************************************)
(* The properties.                                                         *)
(***************************************************************************)
ProbeDone == probe_pc = "done"
GotStatus(c) == resp.kind = "response" /\ resp.status_code = c
GotOtherStatus == resp.kind = "response" /\ resp.status_code # 200
GotException == resp.kind = "exception"

\* C1: check_rpc_status never raises: for every url and every outcome of
\* the request it returns a (reachable, detail) pair, and the empty or
\* absent url, every non-200 status and every exception give reachable =
\* False.
C1_ProbeNeverRaises ==
    /\ probe_out.kind # "raise"
    /\ ProbeDone =>
          /\ probe_out.kind = "return"
          /\ (~Truthy(url) \/ GotOtherStatus \/ GotException)
                => ~probe_out.reachable

C1_Witness ==
    /\ ProbeDone
    /\ resp = Raised("RuntimeError")
    /\ probe_out.kind = "return"

\* C2 as the spec words it: the empty or absent url gives (False, "no
\* endpoint configured"), status 200 gives (True, "<whole number>ms"),
\* another status c gives (False, "HTTP c"), an exception gives (False,
\* "connection failed"); reachable holds exactly for a non-empty url and
\* status 200.
C2_Original ==
    ProbeDone =>
       /\ ~Truthy(url) => probe_out = ProbeReturn(FALSE, "no endpoint configured")
       /\ Truthy(url) /\ GotStatus(200) =>
             /\ probe_out.kind = "return"
             /\ \E n \in 0..MaxElapsed : probe_out.detail = ToString(n) \o "ms"
       /\ Truthy(url) /\ GotOtherStatus =>
             probe_out = ProbeReturn(FALSE, "HTTP " \o ToString(resp.status_code))
       /\ Truthy(url) /\ GotException =>
             probe_out = ProbeReturn(FALSE, "connection failed")
       /\ probe_out.reachable <=> (Truthy(url) /\ GotStatus(200))

\* C2, amended: the result is a fixed function of the url and the outcome:
\* the empty or absent url gives (False, "No URL Configured"), status 200
\* gives (True, "<n>ms") with n the whole number of milliseconds nearest to
\* the elapsed time, another status c gives (False, "HTTP c"), an exception
\* gives (False, "Connection Failed"); reachable holds exactly for a
\* non-empty url and status 200.
C2_ProbeResult ==
    ProbeDone =>
       /\ ~Truthy(url) => probe_out = ProbeReturn(FALSE, "No URL Configured")
       /\ Truthy(url) /\ GotStatus(200) =>
             /\ probe_out.kind = "return"
             /\ \E n \in 0..MaxElapsed :
                   /\ probe_out.detail = ToString(n) \o "ms"
                   /\ 2 * n - (clock - start) \in -1..1
       /\ Truthy(url) /\ GotOtherStatus =>
             probe_out = ProbeReturn(FALSE, "HTTP " \o ToString(resp.status_code))
       /\ Truthy(url) /\ GotException =>
             probe_out = ProbeReturn(FALSE, "Connection Failed")
       /\ probe_out.reachable <=> (Truthy(url) /\ GotStatus(200))

C2_Witness ==
    /\ ProbeDone
    /\ GotStatus(201)
    /\ probe_out = ProbeReturn(FALSE, "HTTP 201")

\* C3: one invocation of check_rpc_status makes no request for the empty or
\* absent url and exactly one requests.post call otherwise, whatever that
\* call does: there is no retry.
C3_OnePost ==
    /\ posts <= 1
    /\ ~Truthy(url) => posts = 0
    /\ ProbeDone /\ Truthy(url) => posts = 1

C3_Witness ==
    /\ ProbeDone
    /\ resp = Raised("Timeout")
    /\ posts = 1

(***************************************************************************)
(* The fenced blocks of a text, told without the search: <<i, lo, hi>> is  *)
(* a fence at i, the optional tag, whitespace, a span s[lo..hi] from a     *)
(* "{" to a "}", whitespace, a fence.                                      *)
(***************************************************************************)
AllReWs(s, a, b) == \A j \in a..b : s[j] \in ReWs
AfterTag(s, i) ==
    {i + 3} \cup (IF i + 3 <= Len(s) /\ s[i + 3] = "json" THEN {i + 4} ELSE {})
BraceBlocks(s) ==
    {b \in {i \in 1..Len(s) : FenceAt(s, i)}
           \X {lo \in 1..Len(s) : s[lo] = "{"}
           \X {hi \in 1..Len(s) : s[hi] = "}"} :
        /\ \E k \in AfterTag(s, b[1]) : k <= b[2] /\ AllReWs(s, k, b[2] - 1)
        /\ b[2] < b[3]
        /\ \E f \in (b[3] + 1)..Len(s) :
              AllReWs(s, b[3] + 1, f - 1) /\ FenceAt(s, f)}
\* The blocks whose span is a JSON object.
ObjectBlocks(s) ==
    {b \in BraceBlocks(s) : JsonLoads(SubSeq(s, b[2], b[3])).ok}
\* The block with the leftmost fence and, for it, the shortest span.
FirstOf(blocks) ==
    CHOOSE b \in blocks :
        \A c \in blocks : b[1] < c[1] \/ (b[1] = c[1] /\ b[3] <= c[3])
SpanOf(s, b) == SubSeq(s, b[2], b[3])

ExtractDone == x_pc = "done"
StrictOk == JsonLoads(raw_text).ok
QuotedFenceText == <<Q>> \o Fence \o ObjA1 \o Fence \o <<Q>>
SpecExampleText == Prose \o Fenced(<<"json">>, ObjA1) \o <<NL>>
DictA1 == PyDict(<<"a">> :> PyInt(1))

C5_Original ==
    ExtractDone /\ ~StrictOk /\ ObjectBlocks(raw_text) # {} =>
       x_out = Return(JsonLoads(SpanOf(raw_text,
                                       FirstOf(ObjectBlocks(raw_text)))).val)

\* C5, amended: when the whole text is not JSON and holds a fence
\* (optionally tagged json) that a {...} span, whitespace and a closing
\* fence follow, clean_json_output takes the leftmost such fence and the
\* shortest such span, whether or not a later block would parse, and
\* returns the strict parse of that span when it parses; the text of the
\* spec's example yields the mapping {"a": 1}.
C5_FirstFencedSpan ==
    /\ ExtractDone /\ ~StrictOk /\ BraceBlocks(raw_text) # {}
          /\ JsonLoads(SpanOf(raw_text, FirstOf(BraceBlocks(raw_text)))).ok =>
          x_out = Return(JsonLoads(SpanOf(raw_text,
                                          FirstOf(BraceBlocks(raw_text)))).val)
    /\ ExtractDone /\ raw_text = SpecExampleText => x_out = Return(DictA1)

C5_Witness ==
    /\ ExtractDone
    /\ raw_text = SpecExampleText
    /\ searches = 1
    /\ x_out.kind = "return"

\* C6: whenever the strict parse of the whole text fails and no fenced
\* {...} block is found, or the captured span fails to parse,
\* clean_json_output fails with the one ParseFailure error and its fixed
\* message, the same for both causes, and returns no value.
C6_SingleParseFailure ==
    ExtractDone /\ ~StrictOk
       /\ (\/ BraceBlocks(raw_text) = {}
           \/ ~JsonLoads(SpanOf(raw_text, FirstOf(BraceBlocks(raw_text)))).ok) =>
       /\ x_out.kind = "raise"
       /\ Catches("ValueError", x_out.exc)
       /\ x_out.msg = ParseFailureMessage

(***************************************************************************)
(* The run of the script.                                                  *)
(***************************************************************************)
RunEnded == pc \in {"stopped", "crashed", "finished"}
AfterAnalysis ==
    pc \in {"status", "display", "summary", "steps", "bug_report", "script",
            "stopped", "crashed", "finished"}
Called(what) == \E i \in 1..Len(trace) : trace[i] = what
\* The chat-completion call was made and raised: the extractor never ran.
ChatRaised == Called("create") /\ AfterAnalysis /\ x_pc = "idle"
ExtractorFailed == AfterAnalysis /\ x_out.kind = "raise"
ExtractorReturned == AfterAnalysis /\ x_out.kind = "return"
SectionWidgets ==
    {"divider", "subheader", "info", "expander", "bug-card", "download_button"}
SectionRendered == \E i \in 1..Len(out) : out[i].w \in SectionWidgets
ErrorShown == \E i \in 1..Len(out) : out[i].w = "error"

\* C7: a run in which the chat-completion call raised or the extractor
\* failed stops with an error message and renders no result section; and no
\* run ends with a partly rendered result, whatever the extractor returned.
C7_NoPartialRender ==
    /\ RunEnded /\ (ChatRaised \/ ExtractorFailed) =>
          pc = "stopped" /\ ErrorShown /\ ~SectionRendered
    /\ ~(pc = "crashed" /\ SectionRendered)

\* C8: with the API key absent, the Analyse action shows the blocking
\* message and does nothing more: no client is made, no upload read, no
\* chat completion asked for; and in every run the chat-completion call
\* comes after the credential check and the input check have both passed.
C8_CredentialGate ==
    /\ api_key = "" /\ pc \notin {"button", "check_key", "finished"} =>
          /\ pc = "stopped"
          /\ out = <<Element("error", Lit("OpenAI API Key is missing."))>>
    /\ api_key = "" => trace = <<>>
    /\ \A i \in 1..Len(trace) :
          trace[i] = "create" =>
             /\ \E j \in 1..(i - 1) : trace[j] = "key_ok"
             /\ \E j \in 1..(i - 1) : trace[j] = "input_ok"
    /\ Called("key_ok") => api_key # ""
    /\ Called("input_ok") => issue_desc # "" \/ uploaded_log # "none"

C8_Witness ==
    /\ pc = "stopped"
    /\ api_key = ""
    /\ issue_desc # ""
    /\ uploaded_log = "utf8"
    /\ ErrorShown

\* C9: the severity label of the bug-report card is one of the mapping
\* {1: Critical, 2: High, 3: Medium, 4: Low, 5: Info}, and it is the
\* Medium label whenever the bug_report's severity is missing or is a
\* value outside 1..5.
C9_Labels == <<"Critical", "High", "Medium", "Low", "Info">>
C9_SeverityLabel ==
    \A i \in 1..Len(out) :
       out[i].w = "bug-card" =>
          LET report == result.v[Key("bug_report")]
              label == out[i].body.v[Key("severity")]
              InRange == /\ Key("severity") \in DOMAIN report.v
                         /\ report.v[Key("severity")].t = "int"
                         /\ report.v[Key("severity")].v \in 1..5
          IN  /\ \E n \in 1..5 : label = Lit(C9_Labels[n])
              /\ InRange => label = Lit(C9_Labels[report.v[Key("severity")].v])
              /\ ~InRange => label = Lit(C9_Labels[3])

\* C10: a run enters 'Analysis Failed' only if the chat-completion call
\* raised or the extractor failed: whenever the call succeeds and the
\* extractor returns a mapping, whatever its keys, the run reaches
\* 'Analysis Complete' and the mapping is rendered as the result.
C10_FailedOnlyOnFailure ==
    /\ status_label = "Analysis Failed" /\ result.t = "dict" =>
          ChatRaised \/ ExtractorFailed
    /\ ExtractorReturned /\ x_out.val.t = "dict" /\ pc # "status" =>
          status_label = "Analysis Complete"
    /\ ExtractorReturned /\ x_out.val.t = "dict" /\ pc = "finished" =>
          SectionRendered
====
